---- MODULE Spec2Model ----
(***************************************************************************)
(* vqu: extraction, validation and update of version strings in the       *)
(* configuration files of a project (src/vqu/cli.py, src/vqu/models.py).  *)
(*                                                                         *)
(* Text is modelled as a sequence of one-character strings.  Python's     *)
(* None is the value None below, which is not a text.                      *)
(***************************************************************************)
EXTENDS Integers, Sequences, FiniteSets, TLC

None == <<"None">>

(***************************************************************************)
(* Character classes and the str methods the program uses.                 *)
(***************************************************************************)
Uppers == <<"A","B","C","D","E","F","G","H","I","J","K","L","M",
            "N","O","P","Q","R","S","T","U","V","W","X","Y","Z">>

Lowers == <<"a","b","c","d","e","f","g","h","i","j","k","l","m",
            "n","o","p","q","r","s","t","u","v","w","x","y","z">>

Range(f) == {f[i] : i \in DOMAIN f}

Digit == {"0","1","2","3","4","5","6","7","8","9"}

LowerAlnum == Range(Lowers) \cup Digit

\* \w of a Python str pattern, restricted to ASCII
Word == Range(Lowers) \cup Range(Uppers) \cup Digit \cup {"_"}

\* the characters str.strip() removes and \s matches, restricted to ASCII
Whitespace == {" ", "\t", "\n", "\r", "\f"}

LowerChar(c) ==
  IF c \in Range(Uppers) THEN Lowers[CHOOSE i \in DOMAIN Uppers : Uppers[i] = c] ELSE c

\* str.lower()
Lower(s) == [i \in 1..Len(s) |-> LowerChar(s[i])]

RECURSIVE LStrip(_)
LStrip(s) == IF s # <<>> /\ Head(s) \in Whitespace THEN LStrip(Tail(s)) ELSE s

RECURSIVE RStrip(_)
RStrip(s) ==
  IF s # <<>> /\ s[Len(s)] \in Whitespace THEN RStrip(SubSeq(s, 1, Len(s) - 1)) ELSE s

\* str.strip()
Strip(s) == RStrip(LStrip(s))

\* s[i:].startswith(sub), i counted from 0
StartsAt(s, sub, i) ==
  /\ i + Len(sub) <= Len(s)
  /\ SubSeq(s, i + 1, i + Len(sub)) = sub

RECURSIVE CountFrom(_, _, _)
CountFrom(s, sub, i) ==
  IF i + Len(sub) > Len(s) THEN 0
  ELSE IF StartsAt(s, sub, i) THEN 1 + CountFrom(s, sub, i + Len(sub))
  ELSE CountFrom(s, sub, i + 1)

CountTokens(s, sub) ==
  Cardinality({i \in 0..(Len(s) - Len(sub)) :
                 StartsAt(s, sub, i) /\ (i = 0 \/ s[i] \notin Digit)})

\* str.count(sub): the number of non-overlapping occurrences
Count(s, sub) == IF sub = <<>> THEN Len(s) + 1 ELSE CountFrom(s, sub, 0)

RECURSIVE Find(_, _, _)
Find(s, sub, i) ==
  IF i + Len(sub) > Len(s) THEN -1
  ELSE IF StartsAt(s, sub, i) THEN i
  ELSE Find(s, sub, i + 1)

ReplaceKeepsOld(s, old, new) ==
  LET i == Find(s, old, 0) IN
  IF i < 0 THEN s
  ELSE SubSeq(s, 1, i) \o new \o SubSeq(s, i + 1, Len(s))

\* str.replace(old, new, 1): the first occurrence only
Replace(s, old, new) ==
  LET i == Find(s, old, 0) IN
  IF i < 0 THEN s
  ELSE SubSeq(s, 1, i) \o new \o SubSeq(s, i + Len(old) + 1, Len(s))

(***************************************************************************)
(* Regular expressions: the subset of Python's re the program's patterns  *)
(* need, and re.fullmatch.                                                 *)
(***************************************************************************)
Unbounded == -1

Cls(cs) == [t |-> "cls", cs |-> cs]

Lit(w) == [t |-> "lit", w |-> w]

Cat(parts) == [t |-> "cat", parts |-> parts]

Alt(alts) == [t |-> "alt", alts |-> alts]

Rep(r, lo, hi) == [t |-> "rep", r |-> r, lo |-> lo, hi |-> hi]

Opt(r) == Rep(r, 0, 1)

Star(r) == Rep(r, 0, Unbounded)

Plus(r) == Rep(r, 1, Unbounded)

RECURSIVE Ends(_, _, _)
RECURSIVE CatEnds(_, _, _, _)
RECURSIVE RepEnds(_, _, _, _, _, _)
\* the positions at which a match of re that starts at a position of P can end
Ends(re, s, P) ==
  CASE re.t = "cls" -> {i + 1 : i \in {j \in P : j < Len(s) /\ s[j + 1] \in re.cs}}
    [] re.t = "lit" -> {i + Len(re.w) : i \in {j \in P : StartsAt(s, re.w, j)}}
    [] re.t = "cat" -> CatEnds(re.parts, 1, s, P)
    [] re.t = "alt" -> UNION {Ends(re.alts[k], s, P) : k \in DOMAIN re.alts}
    [] re.t = "rep" -> RepEnds(re.r, re.lo, re.hi, s, P, 0)

CatEnds(parts, k, s, P) ==
  IF k > Len(parts) THEN P ELSE CatEnds(parts, k + 1, s, Ends(parts[k], s, P))

RepEnds(r, lo, hi, s, P, n) ==
  IF P = {} THEN {}
  ELSE (IF n >= lo THEN P ELSE {})
       \cup (IF hi # Unbounded /\ n >= hi THEN {}
             ELSE RepEnds(r, lo, hi, s, Ends(r, s, P), n + 1))

\* re.fullmatch(re, s) is not None
FullMatch(re, s) == Len(s) \in Ends(re, s, {0})

\* models.py:107, r"[\w][\w.-]{0,127}"
DockerTagPattern == Cat(<<Cls(Word), Rep(Cls(Word \cup {".", "-"}), 0, 127)>>)

Sep == Opt(Cls({"-", "_", "."}))

Num == Plus(Cls(Digit))

\* packaging.version.VERSION_PATTERN, anchored with \s* on both sides; the
\* pattern is compiled with re.IGNORECASE, applied here by lowering the text
VersionPattern ==
  Cat(<<
    Star(Cls(Whitespace)),
    Opt(Lit(<<"v">>)),
    Opt(Cat(<<Num, Lit(<<"!">>)>>)),
    Num, Star(Cat(<<Lit(<<".">>), Num>>)),
    Opt(Cat(<<Sep,
              Alt(<<Lit(<<"a","l","p","h","a">>), Lit(<<"a">>),
                    Lit(<<"b","e","t","a">>), Lit(<<"b">>),
                    Lit(<<"p","r","e","v","i","e","w">>), Lit(<<"p","r","e">>),
                    Lit(<<"c">>), Lit(<<"r","c">>)>>),
              Sep, Opt(Num)>>)),
    Opt(Alt(<<Cat(<<Lit(<<"-">>), Num>>),
              Cat(<<Sep,
                    Alt(<<Lit(<<"p","o","s","t">>), Lit(<<"r","e","v">>), Lit(<<"r">>)>>),
                    Sep, Opt(Num)>>)>>)),
    Opt(Cat(<<Sep, Lit(<<"d","e","v">>), Sep, Opt(Num)>>)),
    Opt(Cat(<<Lit(<<"+">>), Plus(Cls(LowerAlnum)),
              Star(Cat(<<Cls({"-", "_", "."}), Plus(Cls(LowerAlnum))>>))>>)),
    Star(Cls(Whitespace))
  >>)

\* Version(value) does not raise InvalidVersion
IsVersion(value) == FullMatch(VersionPattern, Lower(value))

IsDockerTag(value) == FullMatch(DockerTagPattern, value)

(***************************************************************************)
(* models.py: ConfigFilter and the validator of its result field.          *)
(* validate_docker_tag is only ever tested for truth (models.py:106), so   *)
(* None and False are both FALSE here; an unset validate_regex is NoRegex. *)
(***************************************************************************)
NoRegex == [t |-> "none"]

NULL == <<"n","u","l","l">>

Returned(v) == [raised |-> FALSE, value |-> v]

Raised == [raised |-> TRUE, value |-> None]

\* ConfigFilter.validate_result: data is info.data, with FALSE / NoRegex for
\* a key info.data does not hold
validate_result(value, data) ==
  IF value = None THEN Returned(value)
  ELSE IF value = <<>> \/ Lower(value) = NULL THEN Returned(None)
  ELSE IF data.validate_docker_tag
    THEN (IF IsDockerTag(value) THEN Returned(value) ELSE Raised)
  ELSE IF data.validate_regex # NoRegex
    THEN (IF FullMatch(data.validate_regex, value) THEN Returned(value) ELSE Raised)
  ELSE IF IsVersion(value) THEN Returned(value) ELSE Raised

\* info.data while the model is constructed: pydantic validates the fields in
\* the order of their declaration and result is declared before
\* validate_docker_tag and validate_regex, so neither is in info.data yet
InfoDataOnInit(raw) == [validate_docker_tag |-> FALSE, validate_regex |-> NoRegex]

\* info.data on assignment (validate_assignment=True): the other fields of
\* the existing instance
InfoDataOnAssign(f) ==
  [validate_docker_tag |-> f.validate_docker_tag, validate_regex |-> f.validate_regex]

\* ConfigFilter(**raw): the instance, or raised when validation fails
NewConfigFilter(raw) ==
  LET v == validate_result(raw.result, InfoDataOnInit(raw)) IN
  [raised |-> v.raised,
   filter |-> [expression |-> raw.expression, result |-> v.value,
               validate_docker_tag |-> raw.validate_docker_tag,
               validate_regex |-> raw.validate_regex]]

SetResultIgnored(f, value) ==
  LET v == validate_result(value, InfoDataOnAssign(f)) IN
  [raised |-> v.raised, filter |-> f]

\* config_filter.result = value: a rejected assignment leaves the field as it was
SetResult(f, value) ==
  LET v == validate_result(value, InfoDataOnAssign(f)) IN
  [raised |-> v.raised,
   filter |-> IF v.raised THEN f ELSE [f EXCEPT !.result = v.value]]

(***************************************************************************)
(* The environment: the file system and the yq query engine.               *)
(*                                                                         *)
(* A config file holds fields separated by ";" and an expression is the    *)
(* index of the field it selects.  yq prints the selected field and a      *)
(* newline, or "null" when the file has no such field.  Its exit status is *)
(* the environment's choice.                                               *)
(***************************************************************************)
NoFile == <<"NoFile">>

Delim == ";"

RECURSIVE Fields(_)
Fields(content) ==
  IF \E i \in DOMAIN content : content[i] = Delim
  THEN LET i == CHOOSE j \in DOMAIN content :
                  content[j] = Delim /\ \A k \in 1..(j - 1) : content[k] # Delim
       IN <<SubSeq(content, 1, i - 1)>> \o Fields(SubSeq(content, i + 1, Len(content)))
  ELSE <<content>>

\* models.py:143, ConfigFileFormat.to_yq_format
to_yq_format(format) == IF format = "dotenv" THEN "props" ELSE format

\* cli.py:158, the command line of one extraction
Cmd(file, f) ==
  [format |-> to_yq_format(file.format), expression |-> f.expression, path |-> file.path]

\* cli.py:163, subprocess.run(cmd, capture_output=True, text=True)
Run(cmd, files, rc) ==
  LET fs == Fields(files[cmd.path]) IN
  [stdout |-> (IF cmd.expression \in DOMAIN fs THEN fs[cmd.expression] ELSE NULL) \o <<"\n">>,
   returncode |-> rc]

(***************************************************************************)
(* What a call leaves behind: the exception it raised, the lines it        *)
(* printed and the operations it performed on the environment.             *)
(***************************************************************************)
Error(type, kind, value, expression, path) ==
  [type |-> type, kind |-> kind, value |-> value, expression |-> expression, path |-> path]

NoError == Error("none", "none", None, 0, "")

\* pydantic's ValidationError for the assignment of an invalid result
ValidationError(value, f, file) ==
  Error("ValidationError", "InvalidResult", value, f.expression, file.path)

Line(line, subject, expression, text, color) ==
  [line |-> line, subject |-> subject, expression |-> expression, text |-> text,
   color |-> color]

Ev(op, path, expression, value, content, format) ==
  [op |-> op, path |-> path, expression |-> expression, value |-> value,
   content |-> content, format |-> format]

EmitAlways(st, print_result, line) == [st EXCEPT !.out = Append(@, line)]

\* print() under redirect_stdout (cli.py:141)
Emit(st, print_result, line) ==
  IF print_result THEN [st EXCEPT !.out = Append(@, line)] ELSE st

Log(st, ev) == [st EXCEPT !.events = Append(@, ev)]

(***************************************************************************)
(* cli.py:132, eval_project.  st is the state of the call: the project,    *)
(* the output, the trace, and the exception once one is raised.            *)
(***************************************************************************)
ParseVersionUnstripped(stdout) ==
  IF stdout = <<>> \/ Lower(stdout) = NULL THEN None ELSE stdout

\* cli.py:165-168
ParseVersion(stdout) ==
  LET version == Strip(stdout) IN
  IF version = <<>> \/ Lower(version) = NULL THEN None ELSE version

\* cli.py:173-181
Label(version, expected) ==
  IF version = None THEN [text |-> <<"[Value not found]">>, color |-> "red"]
  ELSE IF version # expected THEN [text |-> version, color |-> "yellow"]
  ELSE [text |-> version, color |-> "green"]

EvalFilterAssignsProject(st, i, k, files, rc, print_result) ==
  LET file == st.project.config_files[i]
      f == file.filters[k]
      cmd == Cmd(file, f)
      result == Run(cmd, files, rc)
      version == ParseVersion(result.stdout)
      set == SetResult(f, version)
      st1 == Log(st, Ev("yq", file.path, f.expression, None, result.stdout, cmd.format))
  IN IF set.raised
     THEN [st1 EXCEPT !.raised = TRUE, !.error = ValidationError(version, f, file)]
     ELSE LET st2 == [st1 EXCEPT !.project.config_files[i].filters[k] = set.filter,
                                 !.project.version = IF version = None THEN @ ELSE version]
              lab == Label(version, st.project.version)
              st3 == Emit(st2, print_result,
                           Line("filter", file.path, f.expression, lab.text, lab.color))
          IN IF result.returncode # 0
             THEN Emit(st3, print_result, Line("cmd", file.path, f.expression, <<>>, cmd.format))
             ELSE st3

\* cli.py:153-187, the body of the loop over the filters
EvalFilter(st, i, k, files, rc, print_result) ==
  LET file == st.project.config_files[i]
      f == file.filters[k]
      cmd == Cmd(file, f)
      result == Run(cmd, files, rc)
      version == ParseVersion(result.stdout)
      set == SetResult(f, version)
      st1 == Log(st, Ev("yq", file.path, f.expression, None, result.stdout, cmd.format))
  IN IF set.raised
     THEN [st1 EXCEPT !.raised = TRUE, !.error = ValidationError(version, f, file)]
     ELSE LET st2 == [st1 EXCEPT !.project.config_files[i].filters[k] = set.filter]
              lab == Label(version, st.project.version)
              st3 == Emit(st2, print_result,
                           Line("filter", file.path, f.expression, lab.text, lab.color))
          IN IF result.returncode # 0
             THEN Emit(st3, print_result, Line("cmd", file.path, f.expression, <<>>, cmd.format))
             ELSE st3

RECURSIVE EvalFilters(_, _, _, _, _, _)
EvalFilters(st, i, k, files, rc, print_result) ==
  IF st.raised \/ k > Len(st.project.config_files[i].filters) THEN st
  ELSE EvalFilters(EvalFilter(st, i, k, files, rc, print_result), i, k + 1, files, rc,
                   print_result)

EvalFileRunsMissing(st, i, files, rc, print_result) ==
  LET file == st.project.config_files[i]
      st1 == Log(st, Ev("exists", file.path, 0, None, <<>>, ""))
  IN IF files[file.path] = NoFile
     THEN EvalFilters(Emit(st1, print_result,
                           Line("file", file.path, 0, <<"[File not found]">>, "")),
                      i, 1, files, rc, print_result)
     ELSE EvalFilters(Emit(st1, print_result, Line("file", file.path, 0, <<>>, "")),
                      i, 1, files, rc, print_result)

EvalFileClearsMissing(st, i, files, rc, print_result) ==
  LET file == st.project.config_files[i]
      st1 == Log(st, Ev("exists", file.path, 0, None, <<>>, ""))
  IN IF files[file.path] = NoFile
     THEN Emit([st1 EXCEPT !.project.config_files[i].filters =
                             [k \in DOMAIN @ |-> [@[k] EXCEPT !.result = None]]],
               print_result, Line("file", file.path, 0, <<"[File not found]">>, ""))
     ELSE EvalFilters(Emit(st1, print_result, Line("file", file.path, 0, <<>>, "")),
                      i, 1, files, rc, print_result)

\* cli.py:145-151, one config file
EvalFile(st, i, files, rc, print_result) ==
  LET file == st.project.config_files[i]
      st1 == Log(st, Ev("exists", file.path, 0, None, <<>>, ""))
  IN IF files[file.path] = NoFile
     THEN Emit(st1, print_result, Line("file", file.path, 0, <<"[File not found]">>, ""))
     ELSE EvalFilters(Emit(st1, print_result, Line("file", file.path, 0, <<>>, "")),
                      i, 1, files, rc, print_result)

RECURSIVE EvalFiles(_, _, _, _, _)
EvalFiles(st, i, files, rc, print_result) ==
  IF st.raised \/ i > Len(st.project.config_files) THEN st
  ELSE EvalFiles(EvalFile(st, i, files, rc, print_result), i + 1, files, rc, print_result)

eval_project(name, proj, files, rc, print_result) ==
  LET st0 == [project |-> proj, files |-> files, raised |-> FALSE, error |-> NoError,
              out |-> <<>>, events |-> <<>>]
  IN EvalFiles(Emit(st0, print_result, Line("header", name, 0, proj.version, "green")),
               1, files, rc, print_result)

(***************************************************************************)
(* cli.py:190, update_project.                                             *)
(***************************************************************************)
ValidateUpdateAllowsTwo(content, path, f, version) ==
  IF f.result = None
  THEN [raised |-> TRUE, content |-> content,
        error |-> Error("ValueError", "NoValue", None, f.expression, path)]
  ELSE LET count == Count(content, f.result) IN
       IF count = 0
       THEN [raised |-> TRUE, content |-> content,
             error |-> Error("ValueError", "NotFound", f.result, 0, path)]
       ELSE IF count > 2
       THEN [raised |-> TRUE, content |-> content,
             error |-> Error("ValueError", "Multiple", f.result, 0, path)]
       ELSE [raised |-> FALSE, content |-> Replace(content, f.result, version),
             error |-> NoError]

ValidateUpdateRefusesCurrent(content, path, f, version) ==
  IF f.result = None
  THEN [raised |-> TRUE, content |-> content,
        error |-> Error("ValueError", "NoValue", None, f.expression, path)]
  ELSE LET count == Count(content, f.result) IN
       IF count = 0 \/ f.result = version
       THEN [raised |-> TRUE, content |-> content,
             error |-> Error("ValueError", "NotFound", f.result, 0, path)]
       ELSE IF count > 1
       THEN [raised |-> TRUE, content |-> content,
             error |-> Error("ValueError", "Multiple", f.result, 0, path)]
       ELSE [raised |-> FALSE, content |-> Replace(content, f.result, version),
             error |-> NoError]

\* cli.py:208-231, the body of the loop over the filters: the checks of one
\* filter against the content read so far, and its replacement
ValidateUpdate(content, path, f, version) ==
  IF f.result = None
  THEN [raised |-> TRUE, content |-> content,
        error |-> Error("ValueError", "NoValue", None, f.expression, path)]
  ELSE LET count == Count(content, f.result) IN
       IF count = 0
       THEN [raised |-> TRUE, content |-> content,
             error |-> Error("ValueError", "NotFound", f.result, 0, path)]
       ELSE IF count > 1
       THEN [raised |-> TRUE, content |-> content,
             error |-> Error("ValueError", "Multiple", f.result, 0, path)]
       ELSE [raised |-> FALSE, content |-> Replace(content, f.result, version),
             error |-> NoError]

RECURSIVE UpdateFiltersCountsFileAsRead(_, _, _)
UpdateFiltersCountsFileAsRead(st, i, k) ==
  LET file == st.project.config_files[i] IN
  IF st.raised \/ k > Len(file.filters) THEN st
  ELSE LET f == file.filters[k]
           v == ValidateUpdate(st.files[file.path], file.path, f, st.project.version)
           st1 == Log(st, Ev("check", file.path, f.expression, f.result, st.content, ""))
       IN UpdateFiltersCountsFileAsRead(
            [st1 EXCEPT !.content = IF v.raised THEN @
                                    ELSE Replace(@, f.result, st.project.version),
                        !.raised = v.raised, !.error = v.error,
                        !.has_file_error = v.raised],
            i, k + 1)

\* cli.py:209-231, the loop over the filters of one file
RECURSIVE UpdateFilters(_, _, _)
UpdateFilters(st, i, k) ==
  LET file == st.project.config_files[i] IN
  IF st.raised \/ k > Len(file.filters) THEN st
  ELSE LET f == file.filters[k]
           v == ValidateUpdate(st.content, file.path, f, st.project.version)
           st1 == Log(st, Ev("check", file.path, f.expression, f.result, st.content, ""))
       IN UpdateFilters([st1 EXCEPT !.content = v.content, !.raised = v.raised,
                                    !.error = v.error, !.has_file_error = v.raised],
                        i, k + 1)

UpdateFileWritesOnError(st, i) ==
  LET file == st.project.config_files[i] IN
  IF st.files[file.path] = NoFile
  THEN [st EXCEPT !.raised = TRUE,
                  !.error = Error("FileNotFoundError", "NoSuchFile", None, 0, file.path)]
  ELSE LET st1 == Log([st EXCEPT !.content = st.files[file.path], !.has_file_error = FALSE],
                      Ev("read", file.path, 0, None, st.files[file.path], ""))
           st2 == UpdateFilters(st1, i, 1)
       IN IF st2.raised
          THEN Log([st2 EXCEPT !.files[file.path] = st2.content],
                   Ev("write", file.path, 0, None, st2.content, ""))
          ELSE Emit(Log([st2 EXCEPT !.files[file.path] = st2.content],
                        Ev("write", file.path, 0, None, st2.content, "")),
                    TRUE, Line("updated", file.path, 0, st2.project.version, "green"))

UpdateFileWritesRead(st, i) ==
  LET file == st.project.config_files[i] IN
  IF st.files[file.path] = NoFile
  THEN [st EXCEPT !.raised = TRUE,
                  !.error = Error("FileNotFoundError", "NoSuchFile", None, 0, file.path)]
  ELSE LET st1 == Log([st EXCEPT !.content = st.files[file.path], !.has_file_error = FALSE],
                      Ev("read", file.path, 0, None, st.files[file.path], ""))
           st2 == UpdateFilters(st1, i, 1)
       IN IF st2.raised \/ st2.has_file_error THEN st2
          ELSE Emit(Log(st2, Ev("write", file.path, 0, None, st.files[file.path], "")),
                    TRUE, Line("updated", file.path, 0, st2.project.version, "green"))

UpdateFileSkipsUnfiltered(st, i) ==
  LET file == st.project.config_files[i] IN
  IF st.files[file.path] = NoFile
  THEN [st EXCEPT !.raised = TRUE,
                  !.error = Error("FileNotFoundError", "NoSuchFile", None, 0, file.path)]
  ELSE LET st1 == Log([st EXCEPT !.content = st.files[file.path], !.has_file_error = FALSE],
                      Ev("read", file.path, 0, None, st.files[file.path], ""))
           st2 == UpdateFilters(st1, i, 1)
       IN IF st2.raised \/ st2.has_file_error \/ file.filters = <<>> THEN st2
          ELSE Emit(Log([st2 EXCEPT !.files[file.path] = st2.content],
                        Ev("write", file.path, 0, None, st2.content, "")),
                    TRUE, Line("updated", file.path, 0, st2.project.version, "green"))

UpdateFileSkipsMissing(st, i) ==
  LET file == st.project.config_files[i] IN
  IF st.files[file.path] = NoFile THEN st
  ELSE LET st1 == Log([st EXCEPT !.content = st.files[file.path], !.has_file_error = FALSE],
                      Ev("read", file.path, 0, None, st.files[file.path], ""))
           st2 == UpdateFilters(st1, i, 1)
       IN IF st2.raised \/ st2.has_file_error THEN st2
          ELSE Emit(Log([st2 EXCEPT !.files[file.path] = st2.content],
                        Ev("write", file.path, 0, None, st2.content, "")),
                    TRUE, Line("updated", file.path, 0, st2.project.version, "green"))

\* cli.py:200-240, one config file
UpdateFile(st, i) ==
  LET file == st.project.config_files[i] IN
  IF st.files[file.path] = NoFile
  THEN [st EXCEPT !.raised = TRUE,
                  !.error = Error("FileNotFoundError", "NoSuchFile", None, 0, file.path)]
  ELSE LET st1 == Log([st EXCEPT !.content = st.files[file.path], !.has_file_error = FALSE],
                      Ev("read", file.path, 0, None, st.files[file.path], ""))
           st2 == UpdateFilters(st1, i, 1)
       IN IF st2.raised \/ st2.has_file_error THEN st2
          ELSE Emit(Log([st2 EXCEPT !.files[file.path] = st2.content],
                        Ev("write", file.path, 0, None, st2.content, "")),
                    TRUE, Line("updated", file.path, 0, st2.project.version, "green"))

RECURSIVE UpdateFiles(_, _)
UpdateFiles(st, i) ==
  IF st.raised \/ i > Len(st.project.config_files) THEN st
  ELSE UpdateFiles(UpdateFile(st, i), i + 1)

update_project_rolls_back(name, proj, files, rc) ==
  LET ev == eval_project(name, proj, files, rc, FALSE)
      st0 == [project |-> ev.project, files |-> files, raised |-> ev.raised,
              error |-> ev.error, out |-> ev.out, events |-> ev.events,
              content |-> <<>>, has_file_error |-> FALSE]
      st1 == UpdateFiles(st0, 1)
  IN IF st1.raised THEN [st1 EXCEPT !.files = files]
     ELSE Emit(st1, TRUE, Line("blank", "", 0, <<>>, ""))

update_project_skips_eval(name, proj, files, rc) ==
  LET st0 == [project |-> proj, files |-> files, raised |-> FALSE, error |-> NoError,
              out |-> <<>>, events |-> <<>>, content |-> <<>>, has_file_error |-> FALSE]
      st1 == UpdateFiles(st0, 1)
  IN IF st1.raised THEN st1 ELSE Emit(st1, TRUE, Line("blank", "", 0, <<>>, ""))

update_project(name, proj, files, rc) ==
  LET ev == eval_project(name, proj, files, rc, FALSE)
      st0 == [project |-> ev.project, files |-> files, raised |-> ev.raised,
              error |-> ev.error, out |-> ev.out, events |-> ev.events,
              content |-> <<>>, has_file_error |-> FALSE]
      st1 == UpdateFiles(st0, 1)
  IN IF st1.raised THEN st1 ELSE Emit(st1, TRUE, Line("blank", "", 0, <<>>, ""))

(***************************************************************************)
(* The state machine: a project loaded from the configuration, the files   *)
(* on disk, and eval_project and update_project called in any order.       *)
(***************************************************************************)
VARIABLES config, project, files, call, prev, run

vars == <<config, project, files, call, prev, run>>

MaxFiles == 2

Name == "demo"

\* the config files have distinct paths; the i-th has the i-th path and format
Paths == <<"a.json", "b.env", "c.toml", "d.yaml", "e.xml">>

Formats == <<"json", "dotenv", "toml", "yaml", "xml">>

T10 == <<"1", ".", "0">>

T20 == <<"2", ".", "0">>

Versions == {T20}

RawFilter(e, r, d, x) ==
  [expression |-> e, result |-> r, validate_docker_tag |-> d, validate_regex |-> x]

\* a config file of the project: what the file holds and the expressions of
\* the filters the configuration lists for it
Case(content, expressions) ==
  [content |-> content,
   filters |-> [k \in DOMAIN expressions |->
                  RawFilter(expressions[k], None, FALSE, NoRegex)]]

Both == <<"1", ".", "0", ";", "2", ".", "0">>

\* validate_regex = r"[a+]+"
SignPattern == Plus(Cls({"a", "+"}))

ConfigFileCases ==
  { Case(T10, <<>>),
    [content |-> NoFile, filters |-> <<RawFilter(1, T10, FALSE, NoRegex)>>],
    Case(T10, <<2>>),
    Case(<<"1", ".", "0", ";", "2", "1", ".", "0">>, <<1>>),
    Case(<<" ", "1", ".", "0", ";", "x">>, <<1>>),
    Case(<<" ", "1", ".", "0", ";", "x">>, <<2, 1>>),
    Case(Both, <<2, 1>>),
    Case(Both, <<1, 2>>),
    Case(Both, <<1, 1>>),
    [content |-> <<"a">>, filters |-> <<RawFilter(1, None, FALSE, SignPattern)>>] }

\* Project(version=..., config_files=[...]) built from the configuration
NewProject(cfg) ==
  [version |-> cfg.version,
   config_files |->
     [i \in DOMAIN cfg.config_files |->
        [path |-> Paths[i], format |-> Formats[i],
         filters |-> [k \in DOMAIN cfg.config_files[i] |->
                        NewConfigFilter(cfg.config_files[i][k]).filter]]]]

\* the construction of some ConfigFilter raises pydantic's ValidationError
Rejected(cfg) ==
  \E i \in DOMAIN cfg.config_files : \E k \in DOMAIN cfg.config_files[i] :
    NewConfigFilter(cfg.config_files[i][k]).raised

NoProject == [version |-> <<>>, config_files |-> <<>>]

\* no run of main is followed
NoRun == [pc |-> "none"]

\* json_config_file.py:8, load_projects_from_json, as a call
Loaded(cfg, disk) ==
  /\ run = NoRun
  /\ config = cfg
  /\ project = IF Rejected(cfg) THEN NoProject ELSE NewProject(cfg)
  /\ files = disk
  /\ call = [op |-> "load", print_result |-> FALSE, returncode |-> 0,
             raised |-> Rejected(cfg),
             error |-> IF Rejected(cfg)
                       THEN Error("ValidationError", "InvalidConfig", None, 0, "")
                       ELSE NoError,
             events |-> <<>>, out |-> <<>>, project0 |-> NoProject, files0 |-> disk]
  /\ prev = [op |-> "none", raised |-> FALSE, checks |-> 0]

Disk(cont) ==
  [p \in Range(Paths) |->
     IF \E i \in DOMAIN cont : Paths[i] = p
     THEN cont[CHOOSE i \in DOMAIN cont : Paths[i] = p] ELSE NoFile]

Init ==
  \E version \in Versions, n \in 0..MaxFiles :
    \E cases \in [1..n -> ConfigFileCases] :
      Loaded([version |-> version, config_files |-> [i \in 1..n |-> cases[i].filters]],
             Disk([i \in 1..n |-> cases[i].content]))

\* main stops at the first exception (cli.py:23-32)
Running == ~(call.op = "load" /\ call.raised)

ReturnCodes == {0, 1}

NumChecks(events) == Cardinality({j \in DOMAIN events : events[j].op = "check"})

Called(op, print_result, rc, st) ==
  /\ project' = st.project
  /\ files' = st.files
  /\ call' = [op |-> op, print_result |-> print_result, returncode |-> rc,
              raised |-> st.raised,
              error |-> st.error, events |-> st.events, out |-> st.out,
              project0 |-> project, files0 |-> files]
  /\ prev' = [op |-> call.op, raised |-> call.raised, checks |-> NumChecks(call.events)]
  /\ UNCHANGED <<config, run>>

EvalProject ==
  /\ Running
  /\ \E rc \in ReturnCodes, print_result \in BOOLEAN :
       Called("eval", print_result, rc, eval_project(Name, project, files, rc, print_result))

UpdateProject ==
  /\ Running
  /\ \E rc \in ReturnCodes :
       Called("update", FALSE, rc, update_project(Name, project, files, rc))

Next == EvalProject \/ UpdateProject

Spec == Init /\ [][Next]_vars

(***************************************************************************)
(* The classification of a captured text: a project of one config file     *)
(* with one filter, over the texts the file can hold, the settings of the  *)
(* filter and the result the configuration gives it.                       *)
(***************************************************************************)
MaxLen == 2

Alphabet == {"1", "a", "+", " "}

Texts(n) == UNION {[1..k -> Alphabet] : k \in 0..n}

T1a == <<"1", "+", "a">>

Ta == <<"a">>

Captures ==
  Texts(MaxLen) \cup
    { T10, T1a, NULL, <<"N", "U", "L", "L">>, <<"N", "u", "l", "l">>,
      <<" ", "n", "u", "l", "l", "\t">> }

FilterEntries ==
  { RawFilter(1, r, d, x) :
      r \in {None, T10, T1a, Ta}, d \in BOOLEAN, x \in {NoRegex, SignPattern} }

InitFilter ==
  \E version \in Versions, s \in Captures \cup {NoFile}, raw \in FilterEntries :
    Loaded([version |-> version, config_files |-> << <<raw>> >>], Disk(<<s>>))

SpecFilter == InitFilter /\ [][Next]_vars

(***************************************************************************)
(* cli.py:16, main: one run of the command, from the check of yq to the    *)
(* exit status, over the projects mapping of the configuration file.       *)
(***************************************************************************)
MaxProjects == 2

\* the keys of the "projects" mapping, in the order of the file
ProjectNames == <<"alpha", "beta", "gamma", "delta">>

\* a project name that the configuration does not have
Ghost == "ghost"

\* args.project is None (cli.py:106, 110 test its truth value only)
NoName == ""

\* the projects of the configuration have one config file each
ProjectCases ==
  { Case(<<" ", "1", ".", "0", ";", "x">>, <<1>>),
    Case(T10, <<2>>),
    Case(<<" ", "1", ".", "0", ";", "x">>, <<2, 1>>),
    [content |-> NoFile, filters |-> <<RawFilter(1, T10, FALSE, NoRegex)>>],
    [content |-> T10, filters |-> <<RawFilter(1, Ta, FALSE, NoRegex)>>] }

\* the command line: one that argparse refuses, or [project] [-u]
ArgvCases ==
  { [error |-> TRUE, project |-> NoName, update |-> FALSE] } \cup
  { [error |-> FALSE, project |-> name, update |-> update] :
      name \in {NoName, Ghost} \cup {ProjectNames[j] : j \in 1..MaxProjects},
      update \in BOOLEAN }

\* the configuration file is absent
NoConfigFile == [exists |-> FALSE, projects |-> <<>>]

\* models.py:26, RootConfig(projects=...): the j-th project of the mapping
NewRootConfig(cfg) ==
  [j \in DOMAIN cfg |->
     [name |-> ProjectNames[j],
      project |->
        [version |-> cfg[j].version,
         config_files |->
           << [path |-> Paths[j], format |-> Formats[j],
               filters |-> [k \in DOMAIN cfg[j].filters |->
                              NewConfigFilter(cfg[j].filters[k]).filter]] >>]]]

RootConfigRejected(cfg) ==
  \E j \in DOMAIN cfg : \E k \in DOMAIN cfg[j].filters :
    NewConfigFilter(cfg[j].filters[k]).raised

\* cli.py:35, check_yq
check_yq(found) ==
  IF found THEN [raised |-> FALSE, error |-> NoError]
  ELSE [raised |-> TRUE, error |-> Error("FileNotFoundError", "NoYq", None, 0, "")]

\* json_config_file.py:8, load_projects_from_json
load_projects_from_json(cfg) ==
  IF ~cfg.exists
  THEN [raised |-> TRUE, projects |-> <<>>,
        error |-> Error("FileNotFoundError", "NoConfigFile", None, 0, "")]
  ELSE IF RootConfigRejected(cfg.projects)
  THEN [raised |-> TRUE, projects |-> <<>>,
        error |-> Error("ValidationError", "InvalidConfig", None, 0, "")]
  ELSE [raised |-> FALSE, projects |-> NewRootConfig(cfg.projects), error |-> NoError]

\* a call of eval_project or update_project made by handle_args
CallOf(op, name, raised) == [op |-> op, name |-> name, raised |-> raised]

HasProject(projects, name) == \E j \in DOMAIN projects : projects[j].name = name

\* projects.get(args.project)
IndexOfProject(projects, name) == CHOOSE j \in DOMAIN projects : projects[j].name = name

Handled(projects, fs, raised, error, out, calls) ==
  [projects |-> projects, files |-> fs, raised |-> raised, error |-> error,
   out |-> out, calls |-> calls]

\* what handle_args has done once eval_project has returned ev for the j-th
\* project
Evaluated(h, j, ev, sep) ==
  Handled([h.projects EXCEPT ![j].project = ev.project], h.files, ev.raised, ev.error,
          h.out \o ev.out \o (IF ev.raised THEN <<>> ELSE sep),
          Append(h.calls, CallOf("eval", h.projects[j].name, ev.raised)))

\* what handle_args has done once update_project has returned up for the
\* j-th project
Updated(h, j, up) ==
  Handled([h.projects EXCEPT ![j].project = up.project], up.files, up.raised, up.error,
          h.out \o up.out,
          Append(h.calls, CallOf("update", h.projects[j].name, up.raised)))

\* cli.py:121, 127: eval_project(k, v)
EvalOf(h, j, rc, sep) ==
  Evaluated(h, j,
            eval_project(h.projects[j].name, h.projects[j].project, h.files, rc, TRUE),
            sep)

\* cli.py:119: update_project(args.project, project_obj)
UpdateOf(h, j, rc) ==
  Updated(h, j, update_project(h.projects[j].name, h.projects[j].project, h.files, rc))

EvalEvenIfRaised(h, j, rc) == EvalOf(h, j, rc, <<>>)

\* cli.py:118-121: the evaluation follows an update that returned
EvalUnlessRaised(h, j, rc) == IF h.raised THEN h ELSE EvalOf(h, j, rc, <<>>)

\* cli.py:116-121, the project named on the command line
HandleProject(args, projects, fs, rc) ==
  IF args.update
  THEN EvalUnlessRaised(UpdateOf(Handled(projects, fs, FALSE, NoError, <<>>, <<>>),
                                 IndexOfProject(projects, args.project), rc),
                        IndexOfProject(projects, args.project), rc)
  ELSE EvalOf(Handled(projects, fs, FALSE, NoError, <<>>, <<>>),
              IndexOfProject(projects, args.project), rc, <<>>)

\* cli.py:126-129, the loop over projects.items()
RECURSIVE HandleProjects(_, _, _)
HandleProjects(h, j, rc) ==
  IF h.raised \/ j > Len(h.projects) THEN h
  ELSE HandleProjects(EvalOf(h, j, rc,
                             IF j # Len(h.projects)
                             THEN <<Line("blank", "", 0, <<>>, "")>> ELSE <<>>),
                      j + 1, rc)

handle_args_evaluates_all_for_unknown(args, projects, fs, rc) ==
  IF args.project # NoName /\ HasProject(projects, args.project)
  THEN HandleProject(args, projects, fs, rc)
  ELSE HandleProjects(Handled(projects, fs, FALSE, NoError, <<>>, <<>>), 1, rc)

handle_args_accepts_no_project(args, projects, fs, rc) ==
  IF args.update /\ args.project = NoName
  THEN Handled(projects, fs, TRUE,
               Error("ValueError", "UpdateNeedsProject", None, 0, ""), <<>>, <<>>)
  ELSE IF args.project # NoName
  THEN IF ~HasProject(projects, args.project)
       THEN Handled(projects, fs, TRUE,
                    Error("ValueError", "ProjectNotFound", None, 0, args.project),
                    <<>>, <<>>)
       ELSE HandleProject(args, projects, fs, rc)
  ELSE HandleProjects(Handled(projects, fs, FALSE, NoError, <<>>, <<>>), 1, rc)

\* cli.py:98, handle_args
handle_args(args, projects, fs, rc) ==
  IF args.update /\ args.project = NoName
  THEN Handled(projects, fs, TRUE,
               Error("ValueError", "UpdateNeedsProject", None, 0, ""), <<>>, <<>>)
  ELSE IF args.project # NoName
  THEN IF ~HasProject(projects, args.project)
       THEN Handled(projects, fs, TRUE,
                    Error("ValueError", "ProjectNotFound", None, 0, args.project),
                    <<>>, <<>>)
       ELSE HandleProject(args, projects, fs, rc)
  ELSE IF projects = <<>>
  THEN Handled(projects, fs, TRUE,
               Error("IndexError", "ListIndexOutOfRange", None, 0, ""), <<>>, <<>>)
  ELSE HandleProjects(Handled(projects, fs, FALSE, NoError, <<>>, <<>>), 1, rc)

FailedWithoutLine(r, e) == [r EXCEPT !.pc = "exit", !.error = e, !.status = 1]

\* cli.py:30-32: print(f"{err} {e}") and exit(1)
Failed(r, e) ==
  [r EXCEPT !.pc = "exit", !.error = e, !.status = 1,
            !.out = Append(@, Line("error", e.kind, e.expression, e.value, "red"))]

\* the files of the projects of the configuration, as they are on disk
DiskOf(cases) ==
  [p \in Range(Paths) |->
     IF \E j \in DOMAIN cases : Paths[j] = p
     THEN cases[CHOOSE j \in DOMAIN cases : Paths[j] = p].content ELSE NoFile]

Started(found, argv, cfg, disk) ==
  /\ config = cfg
  /\ project = NoProject
  /\ files = disk
  /\ call = [op |-> "none", print_result |-> FALSE, returncode |-> 0, raised |-> FALSE,
             error |-> NoError, events |-> <<>>, out |-> <<>>, project0 |-> NoProject,
             files0 |-> disk]
  /\ prev = [op |-> "none", raised |-> FALSE, checks |-> 0]
  /\ run = [pc |-> "check_yq", yq |-> found, argv |-> argv,
            args |-> [project |-> NoName, update |-> FALSE], projects |-> <<>>,
            projects0 |-> <<>>, files0 |-> disk, returncode |-> 0, calls |-> <<>>,
            out |-> <<>>, error |-> NoError, status |-> 0, steps |-> <<>>]

InitMain ==
  \E found \in BOOLEAN, argv \in ArgvCases :
    \/ Started(found, argv, NoConfigFile, DiskOf(<<>>))
    \/ \E version \in Versions, n \in 0..MaxProjects :
         \E cases \in [1..n -> ProjectCases] :
           Started(found, argv,
                   [exists |-> TRUE,
                    projects |-> [j \in 1..n |-> [version |-> version,
                                                  filters |-> cases[j].filters]]],
                   DiskOf(cases))

\* cli.py:24
CheckYq ==
  /\ run.pc = "check_yq"
  /\ LET r == check_yq(run.yq)
         r0 == [run EXCEPT !.steps = Append(@, "check_yq")]
     IN run' = IF r.raised THEN Failed(r0, r.error)
               ELSE [r0 EXCEPT !.pc = "get_cli_args"]
  /\ UNCHANGED <<config, project, files, call, prev>>

\* cli.py:26; parser.parse_args (cli.py:88) leaves with SystemExit(2) and a
\* usage message on stderr when it refuses the command line
GetCliArgs ==
  /\ run.pc = "get_cli_args"
  /\ LET r0 == [run EXCEPT !.steps = Append(@, "get_cli_args")]
     IN run' = IF run.argv.error
               THEN [r0 EXCEPT !.pc = "exit", !.status = 2,
                               !.error = Error("SystemExit", "Usage", None, 0, "")]
               ELSE [r0 EXCEPT !.pc = "load_projects",
                               !.args = [project |-> run.argv.project,
                                         update |-> run.argv.update]]
  /\ UNCHANGED <<config, project, files, call, prev>>

\* cli.py:27
LoadProjects ==
  /\ run.pc = "load_projects"
  /\ LET r == load_projects_from_json(config)
         r0 == [run EXCEPT !.steps = Append(@, "load_projects")]
     IN run' = IF r.raised THEN Failed(r0, r.error)
               ELSE [r0 EXCEPT !.pc = "handle_args", !.projects = r.projects,
                               !.projects0 = r.projects]
  /\ UNCHANGED <<config, project, files, call, prev>>

\* cli.py:28
HandleArgs ==
  /\ run.pc = "handle_args"
  /\ \E rc \in ReturnCodes :
       \E h \in {handle_args(run.args, run.projects, files, rc)} :
         \E r \in {[run EXCEPT !.projects = h.projects, !.calls = h.calls,
                               !.out = h.out, !.returncode = rc,
                               !.steps = Append(@, "handle_args")]} :
           /\ run' = IF h.raised THEN Failed(r, h.error) ELSE [r EXCEPT !.pc = "exit"]
           /\ files' = h.files
  /\ UNCHANGED <<config, project, call, prev>>

NextMain == CheckYq \/ GetCliArgs \/ LoadProjects \/ HandleArgs

SpecMain == InitMain /\ [][NextMain]_vars

(***************************************************************************)
(* Properties.                                                             *)
(***************************************************************************)
Last(q) == q[Len(q)]

\* the validation rule the settings of a filter select
ActiveRule(f, value) ==
  IF f.validate_docker_tag THEN IsDockerTag(value)
  ELSE IF f.validate_regex # NoRegex THEN FullMatch(f.validate_regex, value)
  ELSE IsVersion(value)

EventsOf(op) == {j \in DOMAIN call.events : call.events[j].op = op}

FileIndex(path) == CHOOSE i \in DOMAIN Paths : Paths[i] = path

PreconditionErrors == {"NoValue", "NotFound", "Multiple"}

\* the update was aborted by a filter that failed its validation
Aborted == call.op = "update" /\ call.raised /\ call.error.kind \in PreconditionErrors

\* w is c with the single occurrence of r at some position replaced by v and
\* every other character in place
IsSubstitution(c, r, v, w) ==
  \E i \in 0..(Len(c) - Len(r)) :
    /\ StartsAt(c, r, i)
    /\ w = SubSeq(c, 1, i) \o v \o SubSeq(c, i + Len(r) + 1, Len(c))

\* C1: in an update, a filter whose result r is present is checked against
\* the content c: with no occurrence of r in c the update fails with "not
\* found" naming r and the path, with two or more it fails with "Multiple
\* occurrences" naming r and the path, and with exactly one the filter
\* validates and the next step works on c with that occurrence replaced
C1_OccurrenceBoundary ==
  call.op = "update" =>
    \A j \in EventsOf("check") :
      LET e == call.events[j]
          n == Count(e.content, e.value)
      IN e.value # None =>
           /\ n = 0 => /\ j = Len(call.events)
                       /\ call.raised
                       /\ call.error = Error("ValueError", "NotFound", e.value, 0, e.path)
           /\ n > 1 => /\ j = Len(call.events)
                       /\ call.raised
                       /\ call.error = Error("ValueError", "Multiple", e.value, 0, e.path)
           /\ n = 1 => /\ j < Len(call.events)
                       /\ call.events[j + 1].op \in {"check", "write"}
                       /\ call.events[j + 1].path = e.path
                       /\ IsSubstitution(e.content, e.value, project.version,
                                         call.events[j + 1].content)

\* an update validated and replaced one filter and then failed on a filter
\* whose result no longer occurs in the content
C1_Witness ==
  /\ call.op = "update"
  /\ call.raised
  /\ call.error.kind = "NotFound"
  /\ \E j \in EventsOf("check") :
       /\ j + 1 = Len(call.events)
       /\ Count(call.events[j].content, call.events[j].value) = 1
       /\ Count(Last(call.events).content, Last(call.events).value) = 0

\* C2: a file is written only after every one of its filters has validated;
\* when a filter of file i fails its validation, file i keeps the content it
\* had before the update and no file after i is opened
C2_PerFileFailFast ==
  call.op = "update" =>
    /\ \A j \in EventsOf("write") :
         LET file == project.config_files[FileIndex(call.events[j].path)]
             n == Len(file.filters)
         IN /\ j > n + 1
            /\ call.events[j - n - 1].op = "read"
            /\ call.events[j - n - 1].path = file.path
            /\ \A k \in 1..n :
                 LET e == call.events[j - n - 1 + k] IN
                 /\ e.op = "check"
                 /\ e.path = file.path
                 /\ e.expression = file.filters[k].expression
                 /\ e.value # None
                 /\ Count(e.content, e.value) = 1
    /\ Aborted =>
         LET i == FileIndex(call.error.path) IN
         /\ files[Paths[i]] = call.files0[Paths[i]]
         /\ \A j \in EventsOf("read") \cup EventsOf("write") \cup EventsOf("check") :
              FileIndex(call.events[j].path) <= i
         /\ \A m \in DOMAIN project.config_files :
              m > i => files[Paths[m]] = call.files0[Paths[m]]

\* the second filter of the first of two files fails after the first filter
\* changed the content in memory
C2_Witness ==
  /\ Aborted
  /\ Len(project.config_files) = 2
  /\ call.error.path = Paths[1]
  /\ files[Paths[2]] # NoFile
  /\ Last(call.events).op = "check"
  /\ Last(call.events).content # call.files0[Paths[1]]

WritesOf(path) == {j \in EventsOf("write") : call.events[j].path = path}

\* C3 as claimed: when update_project is aborted by a failed validation, no
\* config file of the project has been rewritten, the files before the
\* failing one included
C3_NoFileRewritten == Aborted => files = call.files0

\* C3, amended: when update_project is aborted by a failed validation, the
\* failing file and the files after it are not written and keep their
\* content, and each file before the failing one has been written once and
\* holds the content written
C3_OnlyPrecedingFilesRewritten ==
  Aborted =>
    LET i == FileIndex(call.error.path) IN
    \A m \in DOMAIN project.config_files :
      /\ m >= i => /\ WritesOf(Paths[m]) = {}
                   /\ files[Paths[m]] = call.files0[Paths[m]]
      /\ m < i => /\ Cardinality(WritesOf(Paths[m])) = 1
                  /\ \A j \in WritesOf(Paths[m]) : files[Paths[m]] = call.events[j].content

\* the second file fails its validation after the first was rewritten with
\* another content
C3_Witness ==
  /\ Aborted
  /\ call.error.path = Paths[2]
  /\ files[Paths[1]] # call.files0[Paths[1]]

\* C4: a file with one filter whose result r occurs exactly once in the
\* content c read from it is written once, with c in which that occurrence
\* of r is replaced by the project's version and nothing else is changed
C4_OnlySubstitutedTextChanges ==
  call.op = "update" =>
    \A i \in DOMAIN project.config_files :
      LET file == project.config_files[i]
          c == call.files0[file.path]
      IN ( /\ Len(file.filters) = 1
           /\ \E j \in EventsOf("read") : call.events[j].path = file.path
           /\ file.filters[1].result # None
           /\ Count(c, file.filters[1].result) = 1 )
         => /\ Cardinality(WritesOf(file.path)) = 1
            /\ \A j \in WritesOf(file.path) :
                 /\ IsSubstitution(c, file.filters[1].result, project.version,
                                   call.events[j].content)
                 /\ files[file.path] = call.events[j].content

\* a successful update replaced the value of the only filter of a file that
\* holds more than that value
C4_Witness ==
  /\ call.op = "update"
  /\ ~call.raised
  /\ Len(project.config_files) >= 1
  /\ Len(project.config_files[1].filters) = 1
  /\ Len(call.files0[Paths[1]]) > Len(project.config_files[1].filters[1].result)
  /\ files[Paths[1]] # call.files0[Paths[1]]

\* update_project is called right after an update_project that succeeded
\* and replaced the value of at least one filter
Rerun ==
  /\ call.op = "update"
  /\ prev.op = "update"
  /\ ~prev.raised
  /\ prev.checks > 0

\* C5 as claimed: the second of two updates of the same project, the files
\* untouched in between, fails with "not found" and writes nothing
C5_RerunFailsNotFound ==
  Rerun => /\ call.raised
           /\ call.error.kind = "NotFound"
           /\ EventsOf("write") = {}

\* the extraction pass of the call stored the project's version as the
\* result of every filter, and the version occurs once in each file with filters
RefreshedToVersion ==
  /\ call.error.kind # "InvalidResult"
  /\ \A i \in DOMAIN project.config_files :
       LET file == project.config_files[i] IN
       /\ call.files0[file.path] # NoFile
       /\ \A k \in DOMAIN file.filters : file.filters[k].result = project.version
       /\ file.filters # <<>> => Count(call.files0[file.path], project.version) = 1

\* C5, amended: the second of two updates is not an error when its
\* extraction pass stores the project's version for every filter and that
\* version occurs once in each file: it succeeds and writes every file once,
\* with the content the file already had
C5_RerunIsSilentNoOp ==
  (Rerun /\ RefreshedToVersion) =>
    /\ ~call.raised
    /\ files = call.files0
    /\ \A i \in DOMAIN project.config_files :
         /\ Cardinality(WritesOf(Paths[i])) = 1
         /\ \A j \in WritesOf(Paths[i]) : call.events[j].content = call.files0[Paths[i]]

\* the second update of a project with a filter succeeded
C5_Witness ==
  /\ Rerun
  /\ RefreshedToVersion
  /\ \E i \in DOMAIN project.config_files : project.config_files[i].filters # <<>>
  /\ ~call.raised

\* the last call ran yq once, for the only filter of the only config file
OneCapture ==
  /\ call.op # "load"
  /\ Len(project.config_files) = 1
  /\ Len(project.config_files[1].filters) = 1
  /\ Cardinality(EventsOf("yq")) = 1

\* the text yq printed, and that text stripped
Captured == call.events[CHOOSE j \in EventsOf("yq") : TRUE].content

Trimmed == Strip(Captured)

IsMissing(t) == t = <<>> \/ Lower(t) = NULL

\* the filter before and after the call
Before == call.project0.config_files[1].filters[1]

After == project.config_files[1].filters[1]

\* the call ended in the exception of a rejected result
Invalid == call.raised /\ call.error.kind = "InvalidResult"

FilterLines == SelectSeq(call.out, LAMBDA l : l.line = "filter")

\* C6 as claimed: after a call whose capture is Missing or Invalid the
\* filter has no result, whatever it held before, and when the call is an
\* update it fails with "No value retrieved" for the expression and the
\* path of the filter and leaves the files as they were
C6_NoStaleValue ==
  (OneCapture /\ (IsMissing(Trimmed) \/ ~ActiveRule(Before, Trimmed))) =>
    /\ After.result = None
    /\ call.op = "update" =>
         /\ call.raised
         /\ call.error.kind = "NoValue"
         /\ call.error.expression = After.expression
         /\ call.error.path = Paths[1]
         /\ files = call.files0

\* the filters eval_project has to evaluate: those of the files that exist
Reachable ==
  UNION { {<<i, k>> : k \in DOMAIN call.project0.config_files[i].filters} :
            i \in {m \in DOMAIN call.project0.config_files :
                     call.files0[Paths[m]] # NoFile} }

\* C7 as claimed: eval_project never raises; it runs yq for every filter of
\* every file that exists and, when it prints, reports each of them on a
\* line of its own
C7_EvalNeverAborts ==
  call.op = "eval" =>
    /\ ~call.raised
    /\ Cardinality(EventsOf("yq")) = Cardinality(Reachable)
    /\ call.print_result => Len(FilterLines) = Cardinality(Reachable)

\* C8 as claimed: in every state the result of each filter is absent or
\* satisfies the validation rule its settings select
C8_StoredResultIsValid ==
  \A i \in DOMAIN project.config_files :
    \A k \in DOMAIN project.config_files[i].filters :
      LET f == project.config_files[i].filters[k] IN
      f.result = None \/ ActiveRule(f, f.result)

\* C9 as claimed: the rule the settings select, and no other, decides
\* whether a value is accepted, for a result given in the configuration as
\* for a captured one
C9_ActiveRuleAloneDecides ==
  /\ call.op = "load" =>
       LET raw == config.config_files[1][1] IN
       call.raised <=> (raw.result # None /\ ~ActiveRule(raw, raw.result))
  /\ (OneCapture /\ ~IsMissing(Trimmed)) =>
       (Invalid <=> ~ActiveRule(Before, Trimmed))

C11_FourLabels ==
  (OneCapture /\ call.op = "eval" /\ call.print_result) =>
    /\ Len(FilterLines) = 1
    /\ FilterLines[1].expression = Before.expression
    /\ LET l == FilterLines[1] IN
       IF IsMissing(Trimmed) THEN l.text = <<"[Value not found]">> /\ l.color = "red"
       ELSE IF ~ActiveRule(Before, Trimmed) THEN l.text = <<"[Invalid version]">>
       ELSE IF Trimmed = project.version THEN l.text = Trimmed /\ l.color = "green"
       ELSE l.text = Trimmed /\ l.color = "yellow"

\* every filter of the project, as <<file, filter>>
AllFilters ==
  UNION { {<<i, k>> : k \in DOMAIN project.config_files[i].filters} :
            i \in DOMAIN project.config_files }

\* eval_project is called right after an update_project that succeeded
AfterUpdate == call.op = "eval" /\ prev.op = "update" /\ ~prev.raised

\* the pass stored the project's version for every filter and, when it
\* prints, reports every filter as matched
EveryFilterMatched ==
  /\ ~call.raised
  /\ \A ik \in AllFilters :
       project.config_files[ik[1]].filters[ik[2]].result = project.version
  /\ call.print_result =>
       /\ Len(FilterLines) = Cardinality(AllFilters)
       /\ \A j \in DOMAIN FilterLines :
            FilterLines[j].text = project.version /\ FilterLines[j].color = "green"

C13_EachFileReadAndWrittenOnce ==
  (call.op = "update" /\ ~call.raised) =>
    LET n == Len(project.config_files)
        io == SelectSeq(call.events, LAMBDA e : e.op \in {"read", "write"})
    IN /\ Len(io) = 2 * n
       /\ \A i \in 1..n :
            /\ io[2 * i - 1].op = "read" /\ io[2 * i - 1].path = Paths[i]
            /\ io[2 * i].op = "write" /\ io[2 * i].path = Paths[i]
            /\ files[Paths[i]] = io[2 * i].content
       /\ Len(call.out) = n + 1
       /\ \A i \in 1..n :
            /\ call.out[i].line = "updated"
            /\ call.out[i].subject = Paths[i]
            /\ call.out[i].text = project.version
       /\ call.out[n + 1].line = "blank"
       /\ n = 0 => call.events = <<>>

\* a successful update of two files, the second without filters
C13_Witness ==
  /\ call.op = "update"
  /\ ~call.raised
  /\ Len(project.config_files) = 2
  /\ project.config_files[1].filters # <<>>
  /\ project.config_files[2].filters = <<>>
  /\ files[Paths[1]] # call.files0[Paths[1]]

\* what the extraction of the last call obtains for the expression of a
\* filter of the i-th config file
Extracted(i, expression) ==
  ParseVersion(Run(Cmd(call.project0.config_files[i], [expression |-> expression]),
                   call.files0, call.returncode).stdout)

\* C14: update_project prints nothing of its extraction pass, checks and
\* opens no file before the pass is over, reads a file only after a pass
\* that looked at every file and ran yq for every filter of the files that
\* exist, and checks each filter with the value that pass extracted
C14_SilentPassBeforeAnyRead ==
  call.op = "update" =>
    /\ \A j \in DOMAIN call.out : call.out[j].line \in {"updated", "blank"}
    /\ \A j \in EventsOf("read") \cup EventsOf("check") \cup EventsOf("write") :
         \A m \in EventsOf("exists") \cup EventsOf("yq") : m < j
    /\ EventsOf("read") # {} =>
         /\ Cardinality(EventsOf("exists")) = Len(project.config_files)
         /\ Cardinality(EventsOf("yq")) = Cardinality(Reachable)
    /\ \A j \in EventsOf("check") :
         LET e == call.events[j] IN
         e.value = Extracted(FileIndex(e.path), e.expression)

\* an update checked a filter with a value other than the one the filter
\* held when update_project was called
C14_Witness ==
  /\ call.op = "update"
  /\ \E j \in EventsOf("check") :
       LET e == call.events[j]
           file == call.project0.config_files[FileIndex(e.path)]
       IN \E k \in DOMAIN file.filters :
            /\ file.filters[k].expression = e.expression
            /\ file.filters[k].result # None
            /\ file.filters[k].result # e.value

\* C15 as claimed: after an eval_project that returned, every filter holds
\* no result or the value this pass extracted for it
C15_NoResultPredatesThePass ==
  (call.op = "eval" /\ ~call.raised) =>
    \A ik \in AllFilters :
      LET f == project.config_files[ik[1]].filters[ik[2]] IN
      \/ f.result = None
      \/ /\ call.files0[Paths[ik[1]]] # NoFile
         /\ f.result = Extracted(ik[1], f.expression)

\* C15, amended: after an eval_project that returned, every filter of a
\* config file that exists holds what this pass extracted for it, no result
\* or a value its validation rule accepts, and every filter of a file that
\* does not exist holds what it held before the pass
C15_ExistingFilesAreRefreshed ==
  (call.op = "eval" /\ ~call.raised) =>
    \A ik \in AllFilters :
      LET f == project.config_files[ik[1]].filters[ik[2]] IN
      IF call.files0[Paths[ik[1]]] = NoFile
      THEN f = call.project0.config_files[ik[1]].filters[ik[2]]
      ELSE /\ f.result = Extracted(ik[1], f.expression)
           /\ f.result # None => ActiveRule(f, f.result)

\* a pass over a missing file, whose filter keeps its result, and a file
\* that exists, whose filter got a value it did not hold before
C15_Witness ==
  /\ call.op = "eval"
  /\ ~call.raised
  /\ Len(project.config_files) = 2
  /\ call.files0[Paths[1]] = NoFile
  /\ project.config_files[1].filters # <<>>
  /\ project.config_files[1].filters[1].result # None
  /\ project.config_files[2].filters # <<>>
  /\ project.config_files[2].filters[1].result # None
  /\ project.config_files[2] # call.project0.config_files[2]

\* C16: for a config file that does not exist eval_project prints
\* "[File not found]" with the path, runs yq for none of its filters and
\* goes on to the next config file
C16_MissingFileIsSkipped ==
  call.op = "eval" =>
    \A j \in EventsOf("exists") :
      LET path == call.events[j].path
          i == FileIndex(path)
      IN call.files0[path] = NoFile =>
           /\ \A m \in EventsOf("yq") : call.events[m].path # path
           /\ call.print_result =>
                \E l \in DOMAIN call.out :
                  /\ call.out[l].line = "file"
                  /\ call.out[l].subject = path
                  /\ call.out[l].text = <<"[File not found]">>
           /\ i < Len(project.config_files) =>
                /\ j < Len(call.events)
                /\ call.events[j + 1].op = "exists"
                /\ call.events[j + 1].path = Paths[i + 1]

\* a printed pass skipped a first file that has a filter and evaluated the
\* filter of the second
C16_Witness ==
  /\ call.op = "eval"
  /\ call.print_result
  /\ Len(project.config_files) = 2
  /\ call.files0[Paths[1]] = NoFile
  /\ project.config_files[1].filters # <<>>
  /\ \E m \in EventsOf("yq") : call.events[m].path = Paths[2]

\* C17: the version of the project is the one the configuration gave it
C17_VersionIsNeverChanged == Running => project.version = config.version

\* a failed update follows an eval_project that stored a value other than
\* the version
C17_Witness ==
  /\ call.op = "update"
  /\ call.raised
  /\ prev.op = "eval"
  /\ \E ik \in AllFilters :
       LET r == call.project0.config_files[ik[1]].filters[ik[2]].result IN
       r # None /\ r # project.version

YqEvents == SelectSeq(call.events, LAMBDA e : e.op = "yq")

CmdLines == SelectSeq(call.out, LAMBDA l : l.line = "cmd")

\* C18 as claimed: a printed pass in which yq exits with a non-zero status
\* echoes the command line of every yq run, with its format, expression
\* and path; a pass in which yq exits with status zero echoes none
C18_CommandEchoedOnFailure ==
  (call.op = "eval" /\ call.print_result) =>
    IF call.returncode = 0 THEN CmdLines = <<>>
    ELSE /\ Len(CmdLines) = Len(YqEvents)
         /\ \A j \in DOMAIN CmdLines :
              /\ CmdLines[j].subject = YqEvents[j].path
              /\ CmdLines[j].expression = YqEvents[j].expression
              /\ CmdLines[j].color = YqEvents[j].format

\* <<file, filter>> comes before <<file, filter>> in the declared order
Precedes(a, b) == a[1] < b[1] \/ (a[1] = b[1] /\ a[2] < b[2])

\* C19 as claimed: an eval_project pass runs yq once for every filter of
\* every config file that exists, files and filters in the declared order,
\* each time with the format and path of the file and the expression of the
\* filter
C19_OneRunPerFilterInOrder ==
  call.op = "eval" =>
    /\ Len(YqEvents) = Cardinality(Reachable)
    /\ \A ik \in Reachable :
         LET j == Cardinality({b \in Reachable : Precedes(b, ik)}) + 1
             file == project.config_files[ik[1]]
         IN /\ YqEvents[j].path = file.path
            /\ YqEvents[j].expression = file.filters[ik[2]].expression
            /\ YqEvents[j].format = to_yq_format(file.format)

\* C20: a silent eval_project prints nothing and leaves the project, and
\* the exception if any, exactly as the printing pass over the same project
\* and files does
C20_SilentPassStoresTheSame ==
  (call.op = "eval" /\ ~call.print_result) =>
    LET loud == eval_project(Name, call.project0, call.files0, call.returncode, TRUE) IN
    /\ call.out = <<>>
    /\ loud.out # <<>>
    /\ project = loud.project
    /\ call.raised = loud.raised
    /\ call.error = loud.error
    /\ call.events = loud.events

\* a silent pass stored a value for a filter
C20_Witness ==
  /\ call.op = "eval"
  /\ ~call.print_result
  /\ project # call.project0

(***************************************************************************)
(* main and handle_args.                                                   *)
(***************************************************************************)
\* handle_args has run and main has ended
HandledArgs == run.pc = "exit" /\ run.steps # <<>> /\ Last(run.steps) = "handle_args"

ErrorLines == {j \in DOMAIN run.out : run.out[j].line = "error"}

\* C21: with a project named and --update set, handle_args calls
\* update_project once and then eval_project once for that project, the
\* evaluation only when the update did not raise, and no other project is
\* evaluated or updated.
C21_UpdateThenEvalOfTheNamedProject ==
  (HandledArgs /\ run.args.update /\ HasProject(run.projects0, run.args.project)) =>
    /\ run.calls # <<>>
    /\ run.calls[1].op = "update"
    /\ run.calls[1].name = run.args.project
    /\ IF run.calls[1].raised
       THEN Len(run.calls) = 1
       ELSE /\ Len(run.calls) = 2
            /\ run.calls[2].op = "eval"
            /\ run.calls[2].name = run.args.project
    /\ \A j \in DOMAIN run.projects0 :
         run.projects0[j].name # run.args.project => run.projects[j] = run.projects0[j]
    /\ \A j \in DOMAIN run.projects0 :
         run.projects0[j].name # run.args.project =>
           files[Paths[j]] = run.files0[Paths[j]]

C21_Witness ==
  /\ HandledArgs
  /\ run.args.update
  /\ Len(run.projects0) = 2
  /\ Len(run.calls) = 2
  /\ run.calls[1] = CallOf("update", run.args.project, FALSE)
  /\ files # run.files0

\* C22: handle_args refuses --update without a project, and a project name
\* that the configuration does not have, with a ValueError, before
\* eval_project or update_project is called and before any file is touched.
C22_InvalidRequestsRefusedBeforeAnyWork ==
  HandledArgs =>
    /\ (run.args.update /\ run.args.project = NoName) =>
         /\ run.error = Error("ValueError", "UpdateNeedsProject", None, 0, "")
         /\ run.calls = <<>>
         /\ files = run.files0
         /\ run.projects = run.projects0
    /\ (run.args.project # NoName /\ ~HasProject(run.projects0, run.args.project)) =>
         /\ run.error = Error("ValueError", "ProjectNotFound", None, 0, run.args.project)
         /\ run.calls = <<>>
         /\ files = run.files0
         /\ run.projects = run.projects0

C22_Witness ==
  /\ HandledArgs
  /\ run.args.project = Ghost
  /\ run.args.update
  /\ Len(run.projects0) = 2
  /\ run.error.kind = "ProjectNotFound"

\* C23: with no project argument, handle_args evaluates every loaded
\* project exactly once, in the order of the mapping, and updates none.
C23_EveryProjectEvaluatedOnce ==
  (HandledArgs /\ run.args.project = NoName /\ ~run.args.update) =>
    /\ Len(run.calls) = Len(run.projects0)
    /\ \A j \in DOMAIN run.calls :
         run.calls[j].op = "eval" /\ run.calls[j].name = run.projects0[j].name

\* C24 as stated: every failure, that of parsing the arguments included,
\* ends the run with a single '[Error]' line and exit status 1.
C24_EveryFailureIsAnErrorLine ==
  (run.pc = "exit" /\ run.error # NoError) =>
    /\ run.status = 1
    /\ Cardinality(ErrorLines) = 1
    /\ Last(run.out).line = "error"

\* C24: every exception raised while checking yq, loading the configuration
\* or handling the request ends the run in main with one '[Error]' message
\* that carries the exception, printed last, and exit status 1; a command
\* line that argparse refuses ends the run with SystemExit, status 2 and no
\* '[Error]' message; no step is run twice.
C24_ExceptionsEndInErrorAndStatusOne ==
  /\ run.pc = "exit" =>
       /\ (run.error = NoError) = (run.status = 0)
       /\ run.status = 0 => ErrorLines = {}
       /\ (run.error # NoError /\ run.error.type # "SystemExit") =>
            /\ run.status = 1
            /\ ErrorLines = {Len(run.out)}
            /\ Last(run.out) =
                 Line("error", run.error.kind, run.error.expression, run.error.value, "red")
       /\ run.error.type = "SystemExit" =>
            /\ run.status = 2
            /\ run.out = <<>>
            /\ Last(run.steps) = "get_cli_args"
       /\ \A j \in DOMAIN run.calls :
            run.calls[j].raised => (j = Len(run.calls) /\ run.status = 1)
  /\ run.pc # "none" =>
       \A a, b \in DOMAIN run.steps : run.steps[a] = run.steps[b] => a = b

C24_Witness ==
  /\ HandledArgs
  /\ run.error.kind \in PreconditionErrors
  /\ run.calls = <<CallOf("update", run.args.project, TRUE)>>
  /\ run.status = 1
  /\ Last(run.out).line = "error"

\* C29: with no project argument and an empty projects mapping, handle_args
\* fails before it evaluates anything and main prints '[Error]' and exits
\* with status 1.
C29_EmptyMappingFails ==
  (HandledArgs /\ run.args.project = NoName /\ run.projects0 = <<>>) =>
    /\ run.error.type \in {"IndexError", "ValueError"}
    /\ run.calls = <<>>
    /\ run.out = <<Line("error", run.error.kind, 0, None, "red")>>
    /\ run.status = 1
    /\ files = run.files0

C29_Witness ==
  /\ HandledArgs
  /\ run.args = [project |-> NoName, update |-> FALSE]
  /\ run.projects0 = <<>>
  /\ run.error.type = "IndexError"
  /\ run.status = 1

(***************************************************************************)
(* The order of the filters, missing files, substrings.                    *)
(***************************************************************************)
WasRead(path) == \E j \in EventsOf("read") : call.events[j].path = path

\* C25: within one file the check of a filter runs against the content as
\* the filters before it changed it, so the order of the filters decides:
\* of two values that each occur once in the file, one that differs from the
\* version followed by one that equals it fails on the second filter with
\* "Multiple occurrences" and the file is not written; the opposite order
\* succeeds.
C25_OrderOfFiltersDecides ==
  call.op = "update" =>
    /\ \A j \in EventsOf("check") :
         /\ j > 1
         /\ call.events[j - 1].path = call.events[j].path
         /\ IF call.events[j - 1].op = "read"
            THEN call.events[j].content = call.files0[call.events[j].path]
            ELSE /\ call.events[j - 1].op = "check"
                 /\ IsSubstitution(call.events[j - 1].content, call.events[j - 1].value,
                                   project.version, call.events[j].content)
    /\ \A i \in DOMAIN project.config_files :
         LET file == project.config_files[i] IN
         (WasRead(file.path) /\ Len(file.filters) = 2) =>
           LET c == call.files0[file.path]
               r1 == Extracted(i, file.filters[1].expression)
               r2 == Extracted(i, file.filters[2].expression)
           IN (r1 # None /\ r2 # None /\ Count(c, r1) = 1 /\ Count(c, r2) = 1) =>
                /\ (r1 # project.version /\ r2 = project.version) =>
                     /\ call.raised
                     /\ call.error = Error("ValueError", "Multiple", r2, 0, file.path)
                     /\ WritesOf(file.path) = {}
                     /\ files[file.path] = c
                /\ (r1 = project.version /\ r2 # project.version) =>
                     /\ Cardinality(WritesOf(file.path)) = 1
                     /\ IsSubstitution(c, r2, project.version, files[file.path])

\* the same two values in the two orders: the first file, version first,
\* was rewritten, the second fails on its second filter
C25_Witness ==
  /\ call.op = "update"
  /\ Len(project.config_files) = 2
  /\ call.files0[Paths[1]] = Both
  /\ call.files0[Paths[2]] = Both
  /\ files[Paths[1]] = <<"2", ".", "0", ";", "2", ".", "0">>
  /\ call.error = Error("ValueError", "Multiple", project.version, 0, Paths[2])
  /\ Count(call.files0[Paths[2]], project.version) = 1

\* the first config file of the project that is not on disk
FirstMissing ==
  CHOOSE i \in DOMAIN project.config_files :
    /\ call.files0[Paths[i]] = NoFile
    /\ \A m \in 1..(i - 1) : call.files0[Paths[m]] # NoFile

\* C26: update_project on a project with a config file that does not
\* exist: the extraction pass skips the file without an error, the update
\* is aborted by the file-not-found error of that file, the file is not
\* created, no later file is processed, and the files before it have been
\* rewritten.
C26_MissingFileAbortsTheUpdate ==
  (call.op = "update" /\ \E i \in DOMAIN project.config_files :
                            call.files0[Paths[i]] = NoFile) =>
    LET i == FirstMissing IN
    /\ call.raised
    /\ call.error.kind # "NoSuchFile" =>
         \/ call.error.kind = "InvalidResult"
         \/ call.error.kind \in PreconditionErrors /\ FileIndex(call.error.path) < i
    /\ \A m \in DOMAIN project.config_files :
         m >= i => /\ files[Paths[m]] = call.files0[Paths[m]]
                   /\ \A j \in EventsOf("read") \cup EventsOf("check") \cup EventsOf("write") :
                        call.events[j].path # Paths[m]
    /\ call.error.kind = "NoSuchFile" =>
         /\ call.error = Error("FileNotFoundError", "NoSuchFile", None, 0, Paths[i])
         /\ Cardinality(EventsOf("exists")) = Len(project.config_files)
         /\ \A j \in EventsOf("yq") : call.events[j].path # Paths[i]
         /\ \A m \in 1..(i - 1) :
              /\ Cardinality(WritesOf(Paths[m])) = 1
              /\ \A j \in WritesOf(Paths[m]) : files[Paths[m]] = call.events[j].content

\* the second of two files is missing and the first was rewritten with
\* another content
C26_Witness ==
  /\ call.op = "update"
  /\ Len(project.config_files) = 2
  /\ call.files0[Paths[2]] = NoFile
  /\ call.error = Error("FileNotFoundError", "NoSuchFile", None, 0, Paths[2])
  /\ files[Paths[1]] # call.files0[Paths[1]]
  /\ files[Paths[2]] = NoFile

\* the fields of the content other than field m in which r occurs
Elsewhere(content, m, r) ==
  {n \in DOMAIN Fields(content) :
     n # m /\ \E p \in 0..Len(Fields(content)[n]) : StartsAt(Fields(content)[n], r, p)}

\* C27: the occurrences are counted over the whole text: a value that is
\* also part of a longer token elsewhere in the file counts twice and the
\* update fails with "Multiple occurrences"; so when an update succeeds,
\* what was replaced in each file is the value at the location its filters
\* select, and every other field is as it was.
C27_CountedOverTheWholeText ==
  call.op = "update" =>
    /\ \A j \in EventsOf("check") :
         LET e == call.events[j]
             fields == Fields(e.content)
         IN (/\ e.value # None
             /\ e.expression \in DOMAIN fields
             /\ Strip(fields[e.expression]) = e.value
             /\ Elsewhere(e.content, e.expression, e.value) # {}) =>
              /\ call.raised
              /\ j = Len(call.events)
              /\ call.error = Error("ValueError", "Multiple", e.value, 0, e.path)
    /\ ~call.raised =>
         \A i \in DOMAIN project.config_files :
           LET file == project.config_files[i]
               old == Fields(call.files0[file.path])
               new == Fields(files[file.path])
           IN /\ Len(new) = Len(old)
              /\ \A m \in DOMAIN old :
                   IF \E k \in DOMAIN file.filters : file.filters[k].expression = m
                   THEN IsSubstitution(old[m], Strip(old[m]), project.version, new[m])
                   ELSE new[m] = old[m]

\* the value of the selected field is also part of the longer token of
\* another field, and the update failed
C27_Witness ==
  /\ call.op = "update"
  /\ call.error.kind = "Multiple"
  /\ LET e == Last(call.events) IN
     /\ e.op = "check"
     /\ Strip(Fields(e.content)[e.expression]) = e.value
     /\ \E n \in Elsewhere(e.content, e.expression, e.value) :
          Len(Strip(Fields(e.content)[n])) > Len(e.value)

\* C28: a result is validated in the same way when the filter is
\* constructed with it and when it is assigned to the filter: for every
\* value and every combination of the settings both accept it, and store
\* the same value, or both reject it.
C28_SameValidationOnInitAndAssignment ==
  /\ call.op = "load" =>
       LET raw == config.config_files[1][1]
           blank == NewConfigFilter([raw EXCEPT !.result = None])
           set == SetResult(blank.filter, raw.result)
       IN /\ ~blank.raised
          /\ call.raised = set.raised
          /\ ~call.raised => project.config_files[1].filters[1] = set.filter
  /\ (OneCapture /\ call.op = "eval") =>
       LET new == NewConfigFilter([Before EXCEPT !.result = ParseVersion(Captured)])
       IN /\ call.raised = new.raised
          /\ ~call.raised => After = new.filter

\* C30: eval_project does not touch the stored result of a filter of a
\* config file that does not exist: the value is still there after the
\* pass that reported "[File not found]".
C30_MissingFileKeepsItsResults ==
  call.op = "eval" =>
    \A j \in EventsOf("exists") :
      LET path == call.events[j].path
          i == FileIndex(path)
      IN call.files0[path] = NoFile =>
           /\ project.config_files[i].filters = call.project0.config_files[i].filters
           /\ call.print_result =>
                Cardinality({l \in DOMAIN call.out :
                               /\ call.out[l].line = "file"
                               /\ call.out[l].subject = path
                               /\ call.out[l].text = <<"[File not found]">>}) = 1

\* two printed passes in a row over a missing file whose filter was loaded
\* with a result: the result is still stored
C30_Witness ==
  /\ call.op = "eval"
  /\ prev.op = "eval"
  /\ call.print_result
  /\ ~call.raised
  /\ \E i \in DOMAIN project.config_files :
       /\ call.files0[Paths[i]] = NoFile
       /\ project.config_files[i].filters # <<>>
       /\ project.config_files[i].filters[1].result = T10

====
